---- MODULE Spec2Model ----
(***************************************************************************)
(* A model of habit_tracker.py: the habits.json store (load_data,          *)
(* save_data), the lookup find_habit and the five commands add, done,      *)
(* list, stats and remove, with the streak rule of mark_done.              *)
(*                                                                         *)
(* Strings are TLA+ strings.  A date is the number of its day in January   *)
(* 2024 (0 is 2023-12-31); date.isoformat and datetime.strptime convert    *)
(* between a date and its spelling.  Python's None is the value None.      *)
(***************************************************************************)
EXTENDS Integers, Sequences, FiniteSets, TLC

\* The last day the host clock reaches.
MaxDay == 3

\* The habit names a command line supplies: two spellings of one name that
\* differ in case only, and the empty name (`add ""`).
Names == {"Read", "read", ""}

Days == 1..MaxDay

\* The dates the model can spell: the days of the clock and the day before.
Calendar == 0..MaxDay

None == "None"

VARIABLES
    file,   \* habits.json: [exists, valid, habits], habits the JSON text's entries
    clock,  \* date.today() of the host
    out,    \* what the last command read and printed
    marks,  \* history: <<lower name, day>> for every day a habit was marked done
    pc,     \* per process: where an invocation that saves stands
    pend,   \* per process: the invocation in flight
    acked,  \* history: per habit, what the last completed save reported
    overlap \* history: an invocation loaded while another was about to save

vars == <<file, clock, out, marks, pc, pend, acked, overlap>>

Procs == {"p1", "p2"}

----------------------------------------------------------------------------
(* Strings and dates *)

\* str.lower()
lower(s) == IF s = "Read" THEN "read" ELSE s

\* date.isoformat(): YYYY-MM-DD, zero padded
isoformat(d) ==
    IF d = 0 THEN "2023-12-31"
    ELSE "2024-01-" \o (IF d < 10 THEN "0" ELSE "") \o ToString(d)

\* The spellings datetime.strptime(s, "%Y-%m-%d") reads as the date d: %m and
\* %d accept a number with or without its leading zero.
Spellings(d) ==
    IF d = 0 THEN {"2023-12-31"}
    ELSE { "2024-" \o m \o "-" \o dd :
             m \in {"01", "1"},
             dd \in {ToString(d)} \cup (IF d < 10 THEN {"0" \o ToString(d)} ELSE {}) }

\* The spellings of every date, computed once
Parses == [d \in Calendar |-> Spellings(d)]

\* datetime.strptime(last, "%Y-%m-%d").date(), with the ValueError of line 73
\* caught: the set holding the date read, or {} for last_date = None.
strptime(last) == { d \in Calendar : last \in Parses[d] }

\* today - timedelta(days=1)
yesterday(today) == today - 1

----------------------------------------------------------------------------
(* The store *)

Habit(name, streak, last_done) ==
    [name |-> name, streak |-> streak, last_done |-> last_done]

\* A last_done written by hand that spells no date
Garbage == "not-a-date"

\* The strings a habit's fields can hold.
Strings == Names \cup UNION { Parses[d] : d \in Calendar } \cup {Garbage}

\* json.dump of a str, of None and of an int
json_str(s) == "\"" \o s \o "\""
json_null == "null"
json_int(n) == ToString(n)

\* json.load of a JSON string or null, and of a JSON number: the value whose
\* text it is
JsonStrings == [s \in Strings |-> json_str(s)]
JsonInts == [n \in 0..(MaxDay + 1) |-> json_int(n)]
json_read_str(t) ==
    IF t = json_null THEN None ELSE CHOOSE s \in Strings : JsonStrings[s] = t
json_read_int(t) == CHOOSE n \in 0..(MaxDay + 1) : JsonInts[n] = t

\* json.dump(data, f): the text of every habit
json_dump(habits) ==
    [i \in 1..Len(habits) |->
        [name |-> json_str(habits[i].name),
         streak |-> json_int(habits[i].streak),
         last_done |-> IF habits[i].last_done = None THEN json_null
                       ELSE json_str(habits[i].last_done)]]

\* json.load(f) of a well-formed text
json_load(text) ==
    [i \in 1..Len(text) |->
        Habit(json_read_str(text[i].name),
              json_read_int(text[i].streak),
              json_read_str(text[i].last_done))]

\* habits.json is [exists, valid, habits, habits_type]: whether the file is
\* there, whether its text is JSON, the entries of "habits", and whether
\* "habits" is a JSON array ("list") or the empty JSON object {} ("dict").

\* No habits.json
Absent ==
    [exists |-> FALSE, valid |-> FALSE, habits |-> <<>>, habits_type |-> "list"]

\* open(path, "w"): the file exists and is empty, which is no JSON text
open_w ==
    [exists |-> TRUE, valid |-> FALSE, habits |-> <<>>, habits_type |-> "list"]

\* {"habits": {}}, written by hand: JSON, but "habits" is no array
DictFile ==
    [exists |-> TRUE, valid |-> TRUE, habits |-> <<>>, habits_type |-> "dict"]

\* load_data: {"habits": []} without a file, else json.load, which raises
\* JSONDecodeError on a text that is no JSON
\* is_list: data["habits"] is a list (it has append); an empty dict iterates,
\* counts and tests like an empty list
load_data(f) ==
    IF ~f.exists THEN [ok |-> TRUE, habits |-> <<>>, is_list |-> TRUE]
    ELSE IF ~f.valid THEN [ok |-> FALSE, habits |-> <<>>, is_list |-> TRUE]
    ELSE [ok |-> TRUE, habits |-> json_load(f.habits),
          is_list |-> f.habits_type = "list"]

\* save_data that opens the file and writes nothing
save_data_empty(habits) == open_w

\* save_data, completed: the file holds the text of data
save_data(habits) ==
    [exists |-> TRUE, valid |-> TRUE, habits |-> json_dump(habits),
     habits_type |-> "list"]

\* find_habit comparing the names as spelled
find_habit_exact(habits, name) ==
    LET hits == { i \in 1..Len(habits) : habits[i].name = name }
    IN  IF hits = {} THEN 0 ELSE CHOOSE i \in hits : \A j \in hits : i <= j

\* find_habit: the first habit whose lowered name is the lowered argument,
\* as its index; 0 for None
find_habit(habits, name) ==
    LET hits == { i \in 1..Len(habits) : lower(habits[i].name) = lower(name) }
    IN  IF hits = {} THEN 0 ELSE CHOOSE i \in hits : \A j \in hits : i <= j

----------------------------------------------------------------------------
(* The commands, as functions of the file, the name given and today's date: *)
(* whether the command saves, the data it saves and what it reports.        *)

Report(op, name, today) ==
    [op |-> op, name |-> name, today |-> today, msg |-> "", streak |-> 0,
     last |-> None, lines |-> <<>>, done_today |-> 0, total |-> 0,
     longest |-> <<>>, before |-> 0]

\* json.load raised: the command ends with the traceback, before any save
Raised(op, name, today) ==
    [save |-> FALSE, habits |-> <<>>,
     out |-> [Report(op, name, today) EXCEPT !.msg = "JSONDecodeError"]]

\* Line 51 on a "habits" that is a dict: AttributeError, 'dict' object has no
\* attribute 'append'; the command ends with the traceback, before any save
NoAppend(op, name, today) ==
    [save |-> FALSE, habits |-> <<>>,
     out |-> [Report(op, name, today) EXCEPT !.msg = "AttributeError"]]

\* add_habit putting the new habit first
add_habit_first(f, name) ==
    LET data == load_data(f)
        rep  == Report("add", name, 0)
    IN  IF ~data.ok THEN Raised("add", name, 0)
        ELSE IF find_habit(data.habits, name) # 0
        THEN [save |-> FALSE, habits |-> data.habits,
              out |-> [rep EXCEPT !.msg = "already exists"]]
        ELSE IF ~data.is_list THEN NoAppend("add", name, 0)
        ELSE [save |-> TRUE,
              habits |-> <<Habit(name, 0, None)>> \o data.habits,
              out |-> [rep EXCEPT !.msg = "Added habit"]]

\* add_habit saving the new habit alone
add_habit_alone(f, name) ==
    LET data == load_data(f)
        rep  == Report("add", name, 0)
    IN  IF ~data.ok THEN Raised("add", name, 0)
        ELSE IF find_habit(data.habits, name) # 0
        THEN [save |-> FALSE, habits |-> data.habits,
              out |-> [rep EXCEPT !.msg = "already exists"]]
        ELSE IF ~data.is_list THEN NoAppend("add", name, 0)
        ELSE [save |-> TRUE,
              habits |-> <<Habit(name, 0, None)>>,
              out |-> [rep EXCEPT !.msg = "Added habit"]]

add_habit(f, name) ==
    LET data == load_data(f)
        rep  == Report("add", name, 0)
    IN  IF ~data.ok THEN Raised("add", name, 0)
        ELSE IF find_habit(data.habits, name) # 0
        THEN [save |-> FALSE, habits |-> data.habits,
              out |-> [rep EXCEPT !.msg = "already exists"]]
        ELSE IF ~data.is_list THEN NoAppend("add", name, 0)
        ELSE [save |-> TRUE,
              habits |-> Append(data.habits, Habit(name, 0, None)),
              out |-> [rep EXCEPT !.msg = "Added habit"]]

\* Line 65 comparing with nothing: the early return never taken
same_day_never(last, today) == FALSE

\* Line 65: the stored last_done is today's spelling
same_day(last, today) == last = today

\* next_streak that never continues a streak
next_streak_reset(h, last, on_date) == 1

\* next_streak that continues a streak whatever the last date
next_streak_always(h, last, on_date) == h.streak + 1

\* next_streak that starts a streak at 0
next_streak_zero(h, last, on_date) ==
    LET last_date == IF last # None /\ last # "" THEN strptime(last) ELSE {}
    IN  IF last_date = {yesterday(on_date)} THEN h.streak + 1 ELSE 0

\* next_streak that continues a streak from any earlier date
next_streak_earlier(h, last, on_date) ==
    LET last_date == IF last # None /\ last # "" THEN strptime(last) ELSE {}
    IN  IF \E d \in last_date : d < on_date THEN h.streak + 1 ELSE 1

\* next_streak that keeps the streak when last spells no date
next_streak_keep(h, last, on_date) ==
    LET last_date == IF last # None /\ last # "" THEN strptime(last) ELSE {}
    IN  IF last_date = {yesterday(on_date)} THEN h.streak + 1
        ELSE IF last # None /\ last_date = {} THEN h.streak ELSE 1

\* Lines 70-81: the streak a habit h last done on `last` gets when it is
\* marked done on on_date
next_streak(h, last, on_date) ==
    LET last_date == IF last # None /\ last # "" THEN strptime(last) ELSE {}
    IN  IF last_date = {yesterday(on_date)} THEN h.streak + 1 ELSE 1

\* mark_found storing the name as it was typed
mark_found_rename(habits, i, name, on_date) ==
    LET rep   == Report("done", name, on_date)
        h     == habits[i]
        today == isoformat(on_date)
        last  == h.last_done
    IN  IF same_day(last, today)
        THEN [save |-> FALSE, habits |-> habits,
              out |-> [rep EXCEPT !.msg = "Already marked", !.last = last]]
        ELSE LET streak == next_streak(h, last, on_date)
             IN  [save |-> TRUE,
                  habits |-> [habits EXCEPT ![i] = Habit(name, streak, today)],
                  out |-> [rep EXCEPT !.msg = "Marked", !.streak = streak,
                                      !.last = last]]

\* Lines 63-85: mark_done once find_habit has found the habit, habits[i]
mark_found(habits, i, name, on_date) ==
    LET rep   == Report("done", name, on_date)
        h     == habits[i]
        today == isoformat(on_date)
        last  == h.last_done
    IN  IF same_day(last, today)
        THEN [save |-> FALSE, habits |-> habits,
              out |-> [rep EXCEPT !.msg = "Already marked", !.last = last]]
        ELSE LET streak == next_streak(h, last, on_date)
             IN  [save |-> TRUE,
                  habits |-> [habits EXCEPT ![i] = Habit(h.name, streak, today)],
                  out |-> [rep EXCEPT !.msg = "Marked", !.streak = streak,
                                      !.last = last]]

\* mark_done creating the habit it does not find
mark_done_create(f, name, on_date) ==
    LET data == load_data(f)
        i    == find_habit(data.habits, name)
    IN  IF ~data.ok THEN Raised("done", name, on_date)
        ELSE IF i = 0
        THEN mark_found(Append(data.habits, Habit(name, 0, None)),
                        Len(data.habits) + 1, name, on_date)
        ELSE mark_found(data.habits, i, name, on_date)

mark_done(f, name, on_date) ==
    LET data == load_data(f)
        i    == find_habit(data.habits, name)
    IN  IF ~data.ok THEN Raised("done", name, on_date)
        ELSE IF i = 0
        THEN [save |-> FALSE, habits |-> data.habits,
              out |-> [Report("done", name, on_date) EXCEPT !.msg = "not found"]]
        ELSE mark_found(data.habits, i, name, on_date)

\* list_habits showing every habit that was ever done as done today
list_habits_ever(f, now) ==
    LET data  == load_data(f)
        rep   == Report("list", "", now)
    IN  IF ~data.ok THEN Raised("list", "", now)
        ELSE IF data.habits = <<>>
        THEN [save |-> FALSE, habits |-> data.habits,
              out |-> [rep EXCEPT !.msg = "No habits found"]]
        ELSE [save |-> FALSE, habits |-> data.habits,
              out |-> [rep EXCEPT !.msg = "Your Habits",
                         !.lines = [i \in 1..Len(data.habits) |->
                            [name |-> data.habits[i].name,
                             streak |-> data.habits[i].streak,
                             done_today |-> data.habits[i].last_done # None]]]]

list_habits(f, now) ==
    LET data  == load_data(f)
        rep   == Report("list", "", now)
        today == isoformat(now)
    IN  IF ~data.ok THEN Raised("list", "", now)
        ELSE IF data.habits = <<>>
        THEN [save |-> FALSE, habits |-> data.habits,
              out |-> [rep EXCEPT !.msg = "No habits found"]]
        ELSE [save |-> FALSE, habits |-> data.habits,
              out |-> [rep EXCEPT !.msg = "Your Habits",
                         !.lines = [i \in 1..Len(data.habits) |->
                            [name |-> data.habits[i].name,
                             streak |-> data.habits[i].streak,
                             done_today |-> data.habits[i].last_done = today]]]]

\* max(habits, key=...) keeping the later of two habits with equal streaks
RECURSIVE max_scan_last(_, _, _)
max_scan_last(habits, i, best) ==
    IF i > Len(habits) THEN best
    ELSE max_scan_last(habits, i + 1,
            IF habits[i].streak >= habits[best].streak THEN i ELSE best)

max_streak_last(habits) == max_scan_last(habits, 2, 1)

\* The loop of max(): the habits from the i-th on are compared with the best
\* so far, which a habit replaces only with a greater streak
RECURSIVE max_scan(_, _, _)
max_scan(habits, i, best) ==
    IF i > Len(habits) THEN best
    ELSE max_scan(habits, i + 1,
            IF habits[i].streak > habits[best].streak THEN i ELSE best)

\* max(habits, key=streak) of a collection that is not empty, as an index
max_streak(habits) == max_scan(habits, 2, 1)

show_stats(f, now) ==
    LET data  == load_data(f)
        rep   == Report("stats", "", now)
        today == isoformat(now)
        n     == Len(data.habits)
    IN  IF ~data.ok THEN Raised("stats", "", now)
        ELSE IF n = 0
        THEN [save |-> FALSE, habits |-> data.habits,
              out |-> [rep EXCEPT !.msg = "No habits tracked yet"]]
        ELSE LET top == data.habits[max_streak(data.habits)]
             IN  [save |-> FALSE, habits |-> data.habits,
                  out |-> [rep EXCEPT !.msg = "habits done today",
                     !.done_today = Cardinality({ i \in 1..n :
                                        data.habits[i].last_done = today }),
                     !.total = n,
                     !.longest = <<[name |-> top.name, streak |-> top.streak]>>]]

\* Line 119 dropping the first match only
RECURSIVE keep_others_first(_, _)
keep_others_first(habits, name) ==
    IF habits = <<>> THEN <<>>
    ELSE IF lower(Head(habits).name) # lower(name)
         THEN <<Head(habits)>> \o keep_others_first(Tail(habits), name)
         ELSE Tail(habits)

\* The list comprehension of line 119: the habits whose lowered name differs
RECURSIVE keep_others(_, _)
keep_others(habits, name) ==
    IF habits = <<>> THEN <<>>
    ELSE LET rest == keep_others(Tail(habits), name)
         IN  IF lower(Head(habits).name) # lower(name)
             THEN <<Head(habits)>> \o rest ELSE rest

\* remove_habit saving whether or not it removed anything
remove_habit_save(f, name) ==
    LET data  == load_data(f)
        rep   == Report("remove", name, 0)
        kept  == keep_others(data.habits, name)
    IN  IF ~data.ok THEN Raised("remove", name, 0)
        ELSE [save |-> TRUE, habits |-> kept,
              out |-> [rep EXCEPT !.msg = "Removed habit"]]

remove_habit(f, name) ==
    LET data  == load_data(f)
        rep   == Report("remove", name, 0)
        kept  == keep_others(data.habits, name)
    IN  IF ~data.ok THEN Raised("remove", name, 0)
        ELSE IF Len(data.habits) = Len(kept)
        THEN [save |-> FALSE, habits |-> data.habits,
              out |-> [rep EXCEPT !.msg = "not found"]]
        ELSE [save |-> TRUE, habits |-> kept,
              out |-> [rep EXCEPT !.msg = "Removed habit",
                                  !.before = Len(data.habits)]]

----------------------------------------------------------------------------
(* One invocation of the script at a time, each run to its end *)

\* The names find_habit tells apart
Keys == { lower(name) : name \in Names }

\* Nothing reported yet
NoAcks == [k \in Keys |-> "nothing"]

\* No invocation in flight
NoCall ==
    [save |-> FALSE, habits |-> <<>>, out |-> Report("", "", 0), before |-> <<>>]

Init ==
    /\ file = Absent
    /\ clock = 1
    /\ out = Report("", "", 0)
    /\ marks = {}
    /\ pc = [p \in Procs |-> "idle"]
    /\ pend = [p \in Procs |-> NoCall]
    /\ acked = NoAcks
    /\ overlap = FALSE

\* What a command leaves on disk
Saved(r, f) == IF r.save THEN save_data(r.habits) ELSE f

AddHabit(name) ==
    LET r == add_habit(file, name)
    IN  /\ file' = Saved(r, file)
        /\ out' = r.out
        /\ UNCHANGED <<clock, marks, pc, pend, acked, overlap>>

\* done <name>; log says whether the history of marked days is kept
Done(name, log) ==
    LET r == mark_done(file, name, clock)
    IN  /\ file' = Saved(r, file)
        /\ out' = r.out
        /\ marks' = IF log /\ r.out.msg \in {"Marked", "Already marked"}
                    THEN marks \cup {<<lower(name), clock>>} ELSE marks
        /\ UNCHANGED <<clock, pc, pend, acked, overlap>>

MarkDone(name) == Done(name, FALSE)

MarkDoneLogged(name) == Done(name, TRUE)

ListHabits ==
    LET r == list_habits(file, clock)
    IN  /\ out' = r.out
        /\ UNCHANGED <<file, clock, marks, pc, pend, acked, overlap>>

ShowStats ==
    LET r == show_stats(file, clock)
    IN  /\ out' = r.out
        /\ UNCHANGED <<file, clock, marks, pc, pend, acked, overlap>>

RemoveHabit(name) ==
    LET r == remove_habit(file, name)
    IN  /\ file' = Saved(r, file)
        /\ out' = r.out
        /\ marks' = IF r.save
                    THEN { m \in marks : m[1] # lower(name) } ELSE marks
        /\ UNCHANGED <<clock, pc, pend, acked, overlap>>

\* Midnight passes
Tick ==
    /\ clock < MaxDay
    /\ clock' = clock + 1
    /\ UNCHANGED <<file, out, marks, pc, pend, acked, overlap>>

\* The host's date is set back
SetBack ==
    /\ \E d \in Days : d < clock /\ clock' = d
    /\ UNCHANGED <<file, out, marks, pc, pend, acked, overlap>>

Next ==
    \/ \E name \in Names : AddHabit(name)
    \/ \E name \in Names : MarkDone(name)
    \/ ListHabits
    \/ ShowStats
    \/ \E name \in Names : RemoveHabit(name)
    \/ Tick
    \/ SetBack

Spec == Init /\ [][Next]_vars

\* The same on a host whose date never goes back, with the history of the
\* days each habit was marked done
NextMono ==
    \/ \E name \in Names : AddHabit(name)
    \/ \E name \in Names : MarkDoneLogged(name)
    \/ ListHabits
    \/ ShowStats
    \/ \E name \in Names : RemoveHabit(name)
    \/ Tick

SpecMono == Init /\ [][NextMono]_vars

----------------------------------------------------------------------------
(* An invocation that saves, step by step: it loads the file and computes   *)
(* what to save, save_data opens the file for writing, which empties it,    *)
(* then writes the text.  The process can end between any two steps.        *)

\* The commands that save
Run(op, name, f, today) ==
    CASE op = "add" -> add_habit(f, name)
      [] op = "done" -> mark_done(f, name, today)
      [] op = "remove" -> remove_habit(f, name)

\* Lines 47-51, 57-83, 117-123: load and compute; alone says that no other
\* invocation is running
Start(p, alone) ==
    /\ pc[p] = "idle"
    /\ alone => \A q \in Procs : pc[q] = "idle"
    /\ \E op \in {"add", "done", "remove"}, name \in Names :
        LET r == Run(op, name, file, clock)
        IN  IF r.save
            THEN /\ pc' = [pc EXCEPT ![p] = "open"]
                 /\ pend' = [pend EXCEPT ![p] =
                        [save |-> TRUE, habits |-> r.habits, out |-> r.out,
                         before |-> load_data(file).habits]]
                 /\ overlap' = (overlap \/ \E q \in Procs : pc[q] # "idle")
                 /\ UNCHANGED out
            ELSE /\ out' = r.out
                 /\ UNCHANGED <<pc, pend, overlap>>
    /\ UNCHANGED <<file, clock, marks, acked>>

Begin(p) == Start(p, TRUE)

\* Line 35: path.open("w") truncates habits.json
SaveOpen(p) ==
    /\ pc[p] = "open"
    /\ file' = open_w
    /\ pc' = [pc EXCEPT ![p] = "dump"]
    /\ UNCHANGED <<clock, out, marks, pend, acked, overlap>>

\* What a report of success says of the habit it names
Ack(acks, rep) ==
    [acks EXCEPT ![lower(rep.name)] =
        CASE rep.msg = "Added habit" -> "added"
          [] rep.msg = "Marked" -> isoformat(rep.today)
          [] rep.msg = "Removed habit" -> "removed"
          [] OTHER -> @]

\* Line 36 and the end of the with block: the text is written, then the
\* command prints its message; log says whether the history of what was
\* reported is kept
Dump(p, log) ==
    /\ pc[p] = "dump"
    /\ file' = save_data(pend[p].habits)
    /\ out' = pend[p].out
    /\ pc' = [pc EXCEPT ![p] = "idle"]
    /\ pend' = [pend EXCEPT ![p] = NoCall]
    /\ acked' = IF log THEN Ack(acked, pend[p].out) ELSE acked
    /\ UNCHANGED <<clock, marks, overlap>>

SaveDump(p) == Dump(p, FALSE)

\* The process is terminated, or the write fails, before the save completes
Killed(p) ==
    /\ pc[p] \in {"open", "dump"}
    /\ out' = [pend[p].out EXCEPT !.msg = "killed"]
    /\ pc' = [pc EXCEPT ![p] = "idle"]
    /\ pend' = [pend EXCEPT ![p] = NoCall]
    /\ UNCHANGED <<file, clock, marks, acked, overlap>>

NextCrash ==
    \/ \E p \in Procs : Begin(p)
    \/ \E p \in Procs : SaveOpen(p)
    \/ \E p \in Procs : SaveDump(p)
    \/ \E p \in Procs : Killed(p)
    \/ Tick

SpecCrash == Init /\ [][NextCrash]_vars

----------------------------------------------------------------------------
(* Invocations in several processes at once, none of them killed: any one   *)
(* can load habits.json while another stands between its load and the end   *)
(* of its save.  The invocations of one day are enough for what is checked  *)
(* here, so the date stays as it starts.                                    *)

Load(p) == Start(p, FALSE)

SaveDumpAcked(p) == Dump(p, TRUE)

NextConc ==
    \/ \E p \in Procs : Load(p)
    \/ \E p \in Procs : SaveOpen(p)
    \/ \E p \in Procs : SaveDumpAcked(p)

SpecConc == Init /\ [][NextConc]_vars

----------------------------------------------------------------------------
(* A habits.json written or edited by hand: the commands run on whatever    *)
(* json.load returns.  The commands of one day are enough for what is       *)
(* checked here, so the date stays as it starts.                            *)

\* A date spelled without leading zeros, which strptime reads
Unpadded(d) == "2024-1-" \o ToString(d)

\* Entries a hand-written file holds: names that differ in case only or are
\* equal, a last_done without leading zeros, one that spells no date
EditedHabits ==
    { Habit("Read", 2, Unpadded(2)),
      Habit("read", 3, Garbage),
      Habit("", 0, None) }

\* The longest hand-written collection
MaxEdited == 3

EditedFiles ==
    { save_data(hs) : hs \in UNION { [1..n -> EditedHabits] : n \in 0..MaxEdited } }
      \cup {Absent, open_w, DictFile}

\* Any such file, on any day
InitEdited ==
    /\ file \in EditedFiles
    /\ clock \in Days
    /\ out = Report("", "", 0)
    /\ marks = {}
    /\ pc = [p \in Procs |-> "idle"]
    /\ pend = [p \in Procs |-> NoCall]
    /\ acked = NoAcks
    /\ overlap = FALSE

NextEdited ==
    \/ \E name \in Names : AddHabit(name)
    \/ \E name \in Names : MarkDone(name)
    \/ ListHabits
    \/ ShowStats
    \/ \E name \in Names : RemoveHabit(name)

SpecEdited == InitEdited /\ [][NextEdited]_vars

----------------------------------------------------------------------------
(* The claims *)

\* The persisted collection, as load_data reads it
Stored == load_data(file).habits
StoredNext == load_data(file').habits

\* Whether a habit of hs matches name, case-insensitively
Has(hs, name) == \E i \in 1..Len(hs) : lower(hs[i].name) = lower(name)

\* C1. Streak increment law: a done for a habit whose last_done is the day
\* before today leaves it with its streak plus one and last_done today, in
\* the file and in the report, and changes no other habit.
C1_StreakIncrement ==
    [][\A n \in Names : MarkDone(n) =>
        LET i == find_habit(Stored, n)
        IN  (i # 0 /\ Stored[i].last_done = isoformat(clock - 1)) =>
              /\ StoredNext =
                   [Stored EXCEPT ![i] = Habit(Stored[i].name,
                                               Stored[i].streak + 1,
                                               isoformat(clock))]
              /\ out'.msg = "Marked"
              /\ out'.streak = Stored[i].streak + 1]_vars

C1_Witness ==
    /\ out.op = "done" /\ out.msg = "Marked"
    /\ out.last = isoformat(out.today - 1)
    /\ out.streak = 3
    /\ \E i \in 1..Len(Stored) :
          /\ lower(Stored[i].name) = lower(out.name)
          /\ Stored[i].streak = 3
          /\ Stored[i].last_done = isoformat(out.today)

\* C2. Streak reset law: a done for a habit never done, or last done on a
\* day that is neither today nor the day before (a later day included),
\* leaves it with streak 1 and last_done today.
C2_StreakReset ==
    [][\A n \in Names : MarkDone(n) =>
        LET i == find_habit(Stored, n)
        IN  (/\ i # 0
             /\ Stored[i].last_done # isoformat(clock)
             /\ Stored[i].last_done # isoformat(clock - 1)) =>
              /\ StoredNext =
                   [Stored EXCEPT ![i] = Habit(Stored[i].name, 1,
                                               isoformat(clock))]
              /\ out'.msg = "Marked"
              /\ out'.streak = 1]_vars

\* A habit with a streak of 2 ending on a later day was marked done today.
C2_Witness ==
    /\ out.op = "done" /\ out.msg = "Marked" /\ out.streak = 1
    /\ \E d \in Days : d > out.today /\ out.last = isoformat(d)
    /\ \E i \in 1..Len(Stored) :
          /\ lower(Stored[i].name) = lower(out.name)
          /\ Stored[i].streak = 1
          /\ Stored[i].last_done = isoformat(out.today)

\* C3. Idempotence of a repeated same-day done: a done that follows a done
\* of the same habit on the same day, and any done of a habit whose
\* last_done is today, leaves the file as it is and reports that the habit
\* is already marked.
C3_SameDayIdempotent ==
    [][\A n \in Names : MarkDone(n) =>
        LET i == find_habit(Stored, n)
        IN  (\/ /\ out.op = "done" /\ out.today = clock
                /\ lower(out.name) = lower(n)
                /\ out.msg \in {"Marked", "Already marked"}
             \/ i # 0 /\ Stored[i].last_done = isoformat(clock)) =>
              /\ file' = file
              /\ out'.msg = "Already marked"
              /\ out'.today = clock]_vars

C3_Witness ==
    /\ out.op = "done" /\ out.msg = "Already marked" /\ out.today = clock
    /\ \E i \in 1..Len(Stored) :
          /\ lower(Stored[i].name) = lower(out.name)
          /\ Stored[i].streak = 2
          /\ Stored[i].last_done = isoformat(clock)

\* C4. Uniqueness invariant: no two persisted habits have names that are
\* equal when case is ignored.
C4_UniqueNames ==
    \A i, j \in 1..Len(Stored) :
        i # j => lower(Stored[i].name) # lower(Stored[j].name)

\* "read" was refused because "Read" is there, beside another habit.
C4_Witness ==
    /\ out.op = "add" /\ out.name = "read" /\ out.msg = "already exists"
    /\ Len(Stored) = 2
    /\ \E i \in 1..2 : Stored[i].name = "Read"

\* C5. Streak/last_done consistency: every persisted habit has a streak of
\* at least 0, a streak of 0 exactly when last_done is None, and a streak of
\* at least 1 when last_done is set.
C5_StreakLastDone ==
    \A i \in 1..Len(Stored) :
        /\ Stored[i].streak >= 0
        /\ Stored[i].streak = 0 <=> Stored[i].last_done = None
        /\ Stored[i].last_done # None => Stored[i].streak >= 1

\* A habit never done beside one marked done after a reset.
C5_Witness ==
    /\ Len(Stored) = 2
    /\ \E i, j \in 1..2 :
          /\ Stored[i].streak = 0 /\ Stored[i].last_done = None
          /\ Stored[j].streak = 1 /\ Stored[j].last_done = isoformat(1)
    /\ out.op = "done" /\ out.msg = "Marked" /\ out.last = isoformat(2)

\* The day a last_done written by mark_done spells
DayOf(s) == CHOOSE d \in Days : isoformat(d) = s

\* The number of consecutive days ending at d on which the habit with the
\* lowered name k was marked done
RECURSIVE RunLength(_, _)
RunLength(k, d) ==
    IF d < 1 \/ <<k, d>> \notin marks THEN 0 ELSE 1 + RunLength(k, d - 1)

\* C6. Streak counts the consecutive run: when the dates of successive
\* dones never decrease, every habit with last_done set has a streak equal
\* to the number of consecutive days ending at last_done on each of which it
\* was marked done since it was added.
C6_StreakIsRun ==
    \A i \in 1..Len(Stored) :
        Stored[i].last_done # None =>
            /\ Stored[i].last_done \in { isoformat(d) : d \in Days }
            /\ Stored[i].streak =
                 RunLength(lower(Stored[i].name), DayOf(Stored[i].last_done))

\* One habit done on days 1 and 3 only, another on days 2 and 3.
C6_Witness ==
    /\ Len(Stored) = 2
    /\ \E i, j \in 1..2 :
          /\ Stored[i].streak = 1 /\ Stored[i].last_done = isoformat(3)
          /\ <<lower(Stored[i].name), 1>> \in marks
          /\ <<lower(Stored[i].name), 2>> \notin marks
          /\ Stored[j].streak = 2 /\ Stored[j].last_done = isoformat(3)
          /\ <<lower(Stored[j].name), 1>> \notin marks

\* C7. add of the empty name is rejected as InvalidInput: it reports an
\* invalid name and leaves the persisted collection as it was.
C7_EmptyNameRejected ==
    [][AddHabit("") => (out'.msg = "InvalidInput" /\ file' = file)]_vars

\* C8. add of a name that matches a habit, case ignored, reports
\* AlreadyExists and leaves the file as it is; any other add appends the
\* habit {name, streak 0, last_done None} at the end and persists.
C8_AddExistingOrAppend ==
    [][\A n \in Names : AddHabit(n) =>
        IF Has(Stored, n)
        THEN file' = file /\ out'.msg = "already exists"
        ELSE /\ StoredNext = Append(Stored, Habit(n, 0, None))
             /\ file'.exists
             /\ out'.msg = "Added habit"]_vars

\* "Read" was refused while "read", done twice, is stored beside another.
C8_Witness ==
    /\ out.op = "add" /\ out.name = "Read" /\ out.msg = "already exists"
    /\ Len(Stored) = 2
    /\ Stored[2] = Habit("read", 2, isoformat(2))

\* C9. A save that does not complete leaves a persisted state that loads
\* and equals the collection as it was before the command.
C9_KilledSaveKeepsStore ==
    [][\A p \in Procs : Killed(p) =>
        /\ load_data(file').ok
        /\ load_data(file').habits = pend[p].before]_vars

\* C10. done of a name that matches no habit, case ignored, reports
\* NotFound and leaves the file as it is.
C10_DoneMissing ==
    [][\A n \in Names : MarkDone(n) =>
        (~Has(Stored, n) => file' = file /\ out'.msg = "not found")]_vars

C10_Witness ==
    /\ out.op = "done" /\ out.msg = "not found" /\ out.name = ""
    /\ Len(Stored) = 1
    /\ Stored[1] = Habit("Read", 1, isoformat(1))
    /\ file.exists

\* C11. remove of a name that matches no habit, case ignored, reports
\* NotFound and leaves the file as it is.
C11_RemoveMissing ==
    [][\A n \in Names : RemoveHabit(n) =>
        (~Has(Stored, n) => file' = file /\ out'.msg = "not found")]_vars

\* remove "" found nothing beside "Read", done twice.
C11_Witness ==
    /\ out.op = "remove" /\ out.msg = "not found" /\ out.name = ""
    /\ Stored = <<Habit("Read", 2, isoformat(2))>>

\* C12. remove of a name that matches, case ignored, deletes every habit
\* that matches, also when the stored collection holds several, and nothing
\* else: the other habits stay as they are, in their order.
C12_RemoveAllMatches ==
    [][\A n \in Names : RemoveHabit(n) =>
        (Has(Stored, n) =>
            /\ ~Has(StoredNext, n)
            /\ StoredNext =
                 SelectSeq(Stored, LAMBDA h : lower(h.name) # lower(n))
            /\ out'.msg = "Removed habit")]_vars

\* Of three stored habits the two that match "Read" were removed; the
\* third is left.
C12_Witness ==
    /\ out.op = "remove" /\ out.msg = "Removed habit"
    /\ lower(out.name) = "read"
    /\ out.before = 3
    /\ Stored = <<Habit("", 0, None)>>

\* A stored last_done that is a string and spells no date
Corrupt(last) == last # None /\ strptime(last) = {}

\* C13. A stored last_done that spells no date counts as never done and the
\* habit is kept: done ends normally with streak 1 and last_done today,
\* all other habits as they were; list shows the habit with its stored
\* streak and not done today; stats counts it, not as done today, and its
\* stored streak competes for the longest.
C13_CorruptLastDone ==
    [][/\ \A n \in Names : MarkDone(n) =>
            LET i == find_habit(Stored, n)
            IN  (i # 0 /\ Corrupt(Stored[i].last_done)) =>
                  /\ out'.msg = "Marked" /\ out'.streak = 1
                  /\ StoredNext =
                       [Stored EXCEPT ![i] = Habit(Stored[i].name, 1,
                                                   isoformat(clock))]
       /\ ListHabits =>
            \A i \in 1..Len(Stored) : Corrupt(Stored[i].last_done) =>
                /\ Len(out'.lines) = Len(Stored)
                /\ out'.lines[i] = [name |-> Stored[i].name,
                                    streak |-> Stored[i].streak,
                                    done_today |-> FALSE]
       /\ ShowStats =>
            \A i \in 1..Len(Stored) : Corrupt(Stored[i].last_done) =>
                /\ out'.total = Len(Stored)
                /\ out'.done_today <=
                     Cardinality({ j \in 1..Len(Stored) :
                                     ~Corrupt(Stored[j].last_done) })
                /\ Len(out'.longest) = 1
                /\ out'.longest[1].streak >= Stored[i].streak]_vars

\* "read", stored with a streak of 3 and a last_done that spells no date,
\* was marked done and is stored with streak 1 and today.
C13_Witness ==
    /\ out.op = "done" /\ out.msg = "Marked" /\ out.last = Garbage
    /\ out.streak = 1
    /\ \E i \in 1..Len(Stored) :
          Stored[i] = Habit("read", 1, isoformat(clock))

\* C14. stats reports as the longest streak the habit with the greatest
\* streak, the first of them in the order of the collection when several
\* share it, and reports none exactly when the collection is empty.
C14_TopHabit ==
    out.op = "stats" =>
        /\ out.longest = <<>> <=> Stored = <<>>
        /\ Stored # <<>> =>
             \E i \in 1..Len(Stored) :
                /\ out.longest = <<[name |-> Stored[i].name,
                                    streak |-> Stored[i].streak]>>
                /\ \A j \in 1..Len(Stored) :
                      Stored[j].streak <= Stored[i].streak
                /\ \A j \in 1..(i - 1) :
                      Stored[j].streak < Stored[i].streak

\* Two habits share a streak of 2 and stats names the first.
C14_Witness ==
    /\ out.op = "stats"
    /\ Len(Stored) = 2
    /\ Stored[1].streak = 2 /\ Stored[2].streak = 2
    /\ out.longest = <<[name |-> Stored[1].name, streak |-> 2]>>

\* C15. list shows exactly the habits of the collection, in their order,
\* each with its stored name and streak and as done today exactly when its
\* last_done is the current date; after add(n) on an empty store it shows
\* the one entry (n, streak 0, not done today).
C15_ListShowsCollection ==
    out.op = "list" =>
        /\ Len(out.lines) = Len(Stored)
        /\ \A i \in 1..Len(Stored) :
              /\ out.lines[i].name = Stored[i].name
              /\ out.lines[i].streak = Stored[i].streak
              /\ out.lines[i].done_today <=>
                   /\ Stored[i].last_done # None
                   /\ DayOf(Stored[i].last_done) = out.today
        /\ \A n \in Names : Stored = <<Habit(n, 0, None)>> =>
              out.lines = <<[name |-> n, streak |-> 0, done_today |-> FALSE]>>

\* list of two habits on day 2: the first done on day 1, the second today.
C15_Witness ==
    /\ out.op = "list" /\ out.today = 2
    /\ Len(Stored) = 2
    /\ Stored[1].last_done = isoformat(1)
    /\ Stored[2].last_done = isoformat(2)
    /\ out.lines = <<[name |-> Stored[1].name, streak |-> 1, done_today |-> FALSE],
                     [name |-> Stored[2].name, streak |-> 1, done_today |-> TRUE]>>

\* habits.json exists and does not hold the expected structure: its text is
\* no JSON, or "habits" is no array
Unreadable(f) == f.exists /\ (~f.valid \/ f.habits_type # "list")

\* A command that ended with a traceback
Errors == {"JSONDecodeError", "AttributeError"}

AnyCommand ==
    \/ \E n \in Names : AddHabit(n) \/ MarkDone(n) \/ RemoveHabit(n)
    \/ ListHabits
    \/ ShowStats

\* C16. StorageUnreadable is fatal and non-destructive: when habits.json
\* exists and does not hold the expected structure, every command ends in
\* an error and leaves the file as it is.
C16_UnreadableIsFatal ==
    [][(Unreadable(file) /\ AnyCommand) =>
          (out'.msg \in Errors /\ file' = file)]_vars

\* save_data(load_data()) applied to habits.json
Resaved == save_data(load_data(file).habits)

Pick(hs, S) ==
    LET F[i \in 0..Len(hs)] ==
            IF i = 0 THEN <<>>
            ELSE IF i \in S THEN Append(F[i - 1], hs[i]) ELSE F[i - 1]
    IN  F[Len(hs)]

\* C18. A habit is changed only by a done of that habit: add leaves the
\* stored habits as they are and in place, before what it appends; list and
\* stats leave the file as it is; what remove leaves are habits of the
\* collection, unchanged and in their order; done leaves every habit but
\* the first that matches the name as it is, and that one with its name.
C18_OnlyDoneChangesAHabit ==
    [][/\ \A n \in Names : AddHabit(n) =>
            /\ Len(StoredNext) >= Len(Stored)
            /\ SubSeq(StoredNext, 1, Len(Stored)) = Stored
       /\ (ListHabits \/ ShowStats) => file' = file
       /\ \A n \in Names : RemoveHabit(n) =>
            \E S \in SUBSET (1..Len(Stored)) : StoredNext = Pick(Stored, S)
       /\ \A n \in Names : MarkDone(n) =>
            LET i == find_habit(Stored, n)
            IN  /\ Len(StoredNext) = Len(Stored)
                /\ \A j \in 1..Len(Stored) :
                      /\ StoredNext[j].name = Stored[j].name
                      /\ j # i => StoredNext[j] = Stored[j]]_vars

\* done "read" on a store that holds "Read" and then "read": the first
\* match has the new streak and date under its own name, the second is
\* as it was.
C18_Witness ==
    /\ out.op = "done" /\ out.name = "read" /\ out.msg = "Marked"
    /\ Len(Stored) >= 2
    /\ Stored[1].name = "Read" /\ Stored[1].last_done = isoformat(clock)
    /\ Stored[1].streak = out.streak
    /\ Stored[2] = Habit("read", 3, Garbage)

\* C19. A done of a habit whose stored last_done strptime reads as today's
\* date, however the date is spelled, writes nothing and reports that the
\* habit is already marked.
C19_SameDateIsAlreadyDone ==
    [][\A n \in Names : MarkDone(n) =>
          LET i == find_habit(Stored, n)
          IN  (i # 0 /\ Stored[i].last_done # None
                     /\ strptime(Stored[i].last_done) = {clock}) =>
                  /\ file' = file
                  /\ out'.msg = "Already marked"]_vars

\* What was reported of the habit k holds of the habits hs
Kept(fact, hs, k) ==
    LET i == find_habit(hs, k)
    IN  CASE fact = "nothing" -> TRUE
          [] fact = "added" -> i # 0
          [] fact = "removed" -> i = 0
          [] OTHER -> i # 0 /\ hs[i].last_done = fact

\* No invocation is running and the file lacks what the last completed
\* save of some habit reported
Lost ==
    /\ \A p \in Procs : pc[p] = "idle"
    /\ load_data(file).ok
    /\ \E k \in Keys : ~Kept(acked[k], Stored, k)

\* C20. A completed and reported add, done or remove is missing from the
\* file only after one invocation loaded the file while another stood
\* between its load and the end of its save; with invocations that run one
\* after another nothing reported is ever missing.
C20_LostOnlyWhenInterleaved == Lost => overlap

\* Two adds interleaved: "Read" was reported added, and the file that the
\* other add wrote last holds only its own habit.
C20_Witness ==
    /\ Lost /\ overlap
    /\ acked["read"] = "added" /\ acked[""] = "added"
    /\ Stored = <<Habit("", 0, None)>>

====
